---------------------------- MODULE Spec2Model ----------------------------
(***************************************************************************)
(* A model of the yupdates Python SDK: the item-time codec                 *)
(* (yupdates/__init__.py), the API client (yupdates/client.py), the data   *)
(* records (yupdates/models.py) and the default-instance facade            *)
(* (yupdates/yapi.py).                                                     *)
(*                                                                         *)
(* Conventions.  A Python str is a sequence of one-character strings; the  *)
(* literal pieces of an f-string are kept as single tokens of such a       *)
(* sequence.  A Python int is a sign and a sequence of decimal digits, so  *)
(* that values around 10^13 keep their exact value.  A Python value is a   *)
(* record tagged by its type in field t.  Identifiers of the code (dict    *)
(* keys, HTTP methods, exception classes, log levels) are TLA+ strings.    *)
(***************************************************************************)
EXTENDS Integers, Sequences, FiniteSets, TLC

VARIABLES
    environ,    \* os.environ, restricted to the two variables the SDK reads
    op,         \* the latest call: its name and its arguments
    result,     \* how the latest call ended: a returned value or a raised exception
    requests,   \* the requests the latest call handed to urllib.request.urlopen
    answers,    \* what the transport answered to each of them
    log         \* the records the latest call sent to the module's logger

vars == <<environ, op, result, requests, answers, log>>

-----------------------------------------------------------------------------
(* Python values *)

PyNone == [t |-> "None"]
PyStr(s) == [t |-> "str", s |-> s]
PyInt(i) == [t |-> "int", i |-> i]
PyBool(b) == [t |-> "bool", b |-> b]
PyList(l) == [t |-> "list", l |-> l]
PyDict(d) == [t |-> "dict", d |-> d]

Return(v) == [kind |-> "return", value |-> v]
Raise(e, m) == [kind |-> "raise", exc |-> e, msg |-> m]

\* bool(x) of a Python value: None, 0, "", [] and {} are falsy
Truthy(x) ==
    CASE x.t = "None" -> FALSE
      [] x.t = "str" -> x.s # <<>>
      [] x.t = "int" -> x.i.mag # <<0>>
      [] x.t = "bool" -> x.b
      [] x.t = "list" -> x.l # <<>>
      [] x.t = "dict" -> DOMAIN x.d # {}
      [] OTHER -> TRUE

-----------------------------------------------------------------------------
(* Python int: arbitrary precision, as sign and decimal magnitude *)

DigitChars == <<"0", "1", "2", "3", "4", "5", "6", "7", "8", "9">>

IsDigit(c) == \E d \in 1..10 : DigitChars[d] = c

DigitVal(c) == (CHOOSE d \in 1..10 : DigitChars[d] = c) - 1

\* a magnitude without its leading zeros; zero is <<0>>
RECURSIVE StripZeros(_)
StripZeros(m) ==
    IF Len(m) > 1 /\ Head(m) = 0 THEN StripZeros(Tail(m)) ELSE m

Big(neg, mag) ==
    LET m == StripZeros(mag) IN [neg |-> neg /\ m # <<0>>, mag |-> m]

\* x <= y on magnitudes without leading zeros
MagLeq(x, y) ==
    \/ Len(x) < Len(y)
    \/ /\ Len(x) = Len(y)
       /\ LET diff == {i \in 1..Len(x) : x[i] # y[i]}
          IN  \/ diff = {}
              \/ LET k == CHOOSE i \in diff : \A j \in diff : i <= j
                 IN  x[k] < y[k]

\* a <= b on Python ints
BigLeq(a, b) ==
    CASE a.neg /\ ~b.neg -> TRUE
      [] ~a.neg /\ b.neg -> FALSE
      [] ~a.neg /\ ~b.neg -> MagLeq(a.mag, b.mag)
      [] OTHER -> MagLeq(b.mag, a.mag)

\* str(i) of a Python int
IntToStr(i) ==
    (IF i.neg THEN <<"-">> ELSE <<>>) \o [k \in 1..Len(i.mag) |-> DigitChars[i.mag[k] + 1]]

\* int(s) read as a Python literal would be: a leading zero is refused
IntOfStr_literal(s) ==
    LET signed == s # <<>> /\ Head(s) \in {"+", "-"}
        body == IF signed THEN Tail(s) ELSE s
    IN  IF /\ body # <<>>
           /\ \A k \in 1..Len(body) : IsDigit(body[k])
           /\ (Len(body) > 1 => Head(body) # "0")
        THEN Return(Big(signed /\ Head(s) = "-", [k \in 1..Len(body) |-> DigitVal(body[k])]))
        ELSE Raise("ValueError", "invalid literal for int() with base 10")

\* int(s) of a Python str: an optional sign, then one or more decimal digits.
\* (Surrounding whitespace and underscores between digits, which int() also
\* accepts, are outside the alphabet of the inputs drawn here.)
IntOfStr(s) ==
    LET signed == s # <<>> /\ Head(s) \in {"+", "-"}
        body == IF signed THEN Tail(s) ELSE s
    IN  IF body # <<>> /\ \A k \in 1..Len(body) : IsDigit(body[k])
        THEN Return(Big(signed /\ Head(s) = "-", [k \in 1..Len(body) |-> DigitVal(body[k])]))
        ELSE Raise("ValueError", "invalid literal for int() with base 10")

\* str(x) of a value that is a str or an int
StrOf(x) == IF x.t = "int" THEN IntToStr(x.i) ELSE x.s

\* int(x) of a value that is a str or an int
IntOf(x) == IF x.t = "int" THEN Return(x.i) ELSE IntOfStr(x.s)

-----------------------------------------------------------------------------
(* str methods *)

\* s.split(sep): the pieces of s between the occurrences of the character sep
RECURSIVE Split(_, _)
Split(s, sep) ==
    IF \A k \in 1..Len(s) : s[k] # sep
    THEN <<s>>
    ELSE LET k == CHOOSE i \in 1..Len(s) : s[i] = sep /\ \A j \in 1..(i - 1) : s[j] # sep
         IN  <<SubSeq(s, 1, k - 1)>> \o Split(SubSeq(s, k + 1, Len(s)), sep)

\* s.zfill(width): zeros on the left up to width, after a leading sign
zfill(s, width) ==
    LET n == IF width > Len(s) THEN width - Len(s) ELSE 0
        zeros == [k \in 1..n |-> "0"]
    IN  IF s # <<>> /\ Head(s) \in {"+", "-"}
        THEN <<Head(s)>> \o zeros \o Tail(s)
        ELSE zeros \o s

Whitespace == {" ", "\t", "\n"}

\* s.strip(): s without its leading and trailing whitespace
RECURSIVE lstrip(_)
lstrip(s) == IF s # <<>> /\ Head(s) \in Whitespace THEN lstrip(Tail(s)) ELSE s

RECURSIVE rstrip(_)
rstrip(s) ==
    IF s # <<>> /\ s[Len(s)] \in Whitespace THEN rstrip(SubSeq(s, 1, Len(s) - 1)) ELSE s

\* strip left out
strip_none(s) == s

strip(s) == rstrip(lstrip(s))

endswith(s, c) == s # <<>> /\ s[Len(s)] = c

-----------------------------------------------------------------------------
(* yupdates/__init__.py *)

BASE_MAX == Big(FALSE, <<9, 9, 9, 9, 9, 9, 9, 9, 9, 9, 9, 9, 9>>)
SLOT_MAX == Big(FALSE, <<9, 9, 9, 9, 9>>)
ZERO == Big(FALSE, <<0>>)
BASE_WIDTH == 13
SLOT_WIDTH == 5

\* the upper bound excluded
base_in_range_strict(base) == BigLeq(ZERO, base) /\ BigLeq(base, BASE_MAX) /\ base # BASE_MAX

base_in_range(base) == BigLeq(ZERO, base) /\ BigLeq(base, BASE_MAX)

slot_in_range(slot) == BigLeq(ZERO, slot) /\ BigLeq(slot, SLOT_MAX)

\* the base padded to ten digits
format_item_time_short(base, slot) ==
    zfill(IntToStr(base), 10) \o <<".">> \o zfill(IntToStr(slot), SLOT_WIDTH)

format_item_time(base, slot) ==
    zfill(IntToStr(base), BASE_WIDTH) \o <<".">> \o zfill(IntToStr(slot), SLOT_WIDTH)

normalize_item_time(item_time) ==
    LET item_time_str == StrOf(item_time)
        dotted == \E k \in 1..Len(item_time_str) : item_time_str[k] = "."
        parts == Split(item_time_str, ".")
        base == IF dotted THEN IntOfStr(parts[1]) ELSE IntOf(item_time)
        slot == IF dotted THEN IntOfStr(parts[2]) ELSE Return(ZERO)
    IN  CASE base.kind = "raise" -> base
          [] slot.kind = "raise" -> slot
          [] ~base_in_range(base.value) ->
                Raise("ValueError", "item_time timestamp is out of range")
          [] ~slot_in_range(slot.value) ->
                Raise("ValueError", "item_time suffix is out of range")
          [] OTHER -> Return(PyStr(format_item_time(base.value, slot.value)))

-----------------------------------------------------------------------------
(* yupdates/models.py *)

AssociatedFileFields == {"url", "length", "type_str"}

FeedItemFields ==
    {"feed_id", "item_id", "input_id", "title", "content", "canonical_url",
     "item_time", "item_time_ms", "deleted", "associated_files"}

InputItemFields == {"title", "content", "canonical_url", "associated_files"}

DataclassNames == {"AssociatedFile", "FeedItem", "InputItem"}

\* the fields of a dataclass
fields(klass) ==
    CASE klass = "AssociatedFile" -> AssociatedFileFields
      [] klass = "FeedItem" -> FeedItemFields
      [] klass = "InputItem" -> InputItemFields

\* the fields declared with a default, and the default
defaults(klass) ==
    IF klass \in {"FeedItem", "InputItem"} THEN ("associated_files" :> PyNone) ELSE <<>>

\* an instance of a dataclass
Instance(klass, f) == [t |-> klass, f |-> f]

isinstance(x, klass) == x.t = klass

\* a constructor that drops the keys it does not know
new_tolerant(klass, data_dict) ==
    CASE data_dict.t # "dict" ->
            Raise("TypeError", "argument after ** must be a mapping")
      [] ~((fields(klass) \ DOMAIN defaults(klass)) \subseteq DOMAIN data_dict.d) ->
            Raise("TypeError", "missing required positional argument")
      [] OTHER ->
            Return(Instance(klass,
                [k \in fields(klass) |->
                    IF k \in DOMAIN data_dict.d THEN data_dict.d[k] ELSE defaults(klass)[k]]))

\* klass(**data_dict): the generated __init__ called with keyword arguments
new(klass, data_dict) ==
    CASE data_dict.t # "dict" ->
            Raise("TypeError", "argument after ** must be a mapping")
      [] ~(DOMAIN data_dict.d \subseteq fields(klass)) ->
            Raise("TypeError", "got an unexpected keyword argument")
      [] ~((fields(klass) \ DOMAIN defaults(klass)) \subseteq DOMAIN data_dict.d) ->
            Raise("TypeError", "missing required positional argument")
      [] OTHER ->
            Return(Instance(klass,
                [k \in fields(klass) |->
                    IF k \in DOMAIN data_dict.d THEN data_dict.d[k] ELSE defaults(klass)[k]]))

\* dataclasses.asdict(dc): dataclass instances become dicts, recursively through lists
RECURSIVE asdict(_)
asdict(x) ==
    CASE x.t \in DataclassNames -> PyDict([k \in DOMAIN x.f |-> asdict(x.f[k])])
      [] x.t = "list" -> PyList([k \in 1..Len(x.l) |-> asdict(x.l[k])])
      [] OTHER -> x

-----------------------------------------------------------------------------
(* json *)

Garbage == [j |-> "garbage"]     \* a body that is not JSON

\* json.dumps(x): the JSON text, kept as its syntax tree
RECURSIVE json_dumps(_)
json_dumps(x) ==
    CASE x.t = "None" -> [j |-> "null"]
      [] x.t = "bool" -> [j |-> IF x.b THEN "true" ELSE "false"]
      [] x.t = "int" -> [j |-> "number", n |-> IntToStr(x.i)]
      [] x.t = "str" -> [j |-> "string", s |-> x.s]
      [] x.t = "list" -> [j |-> "array", a |-> [k \in 1..Len(x.l) |-> json_dumps(x.l[k])]]
      [] x.t = "dict" -> [j |-> "object", o |-> [k \in DOMAIN x.d |-> json_dumps(x.d[k])]]

RECURSIVE json_value(_)
json_value(b) ==
    CASE b.j = "null" -> PyNone
      [] b.j = "true" -> PyBool(TRUE)
      [] b.j = "false" -> PyBool(FALSE)
      [] b.j = "number" -> PyInt(IntOfStr(b.n).value)
      [] b.j = "string" -> PyStr(b.s)
      [] b.j = "array" -> PyList([k \in 1..Len(b.a) |-> json_value(b.a[k])])
      [] b.j = "object" -> PyDict([k \in DOMAIN b.o |-> json_value(b.o[k])])

\* json.loads(json_str)
json_loads(json_str) ==
    IF json_str = Garbage
    THEN Raise("JSONDecodeError", "Expecting value")
    ELSE Return(json_value(json_str))

-----------------------------------------------------------------------------
(* urllib *)

Request(method, url, headers, data) ==
    [method |-> method, url |-> url, headers |-> headers, data |-> data]

NoData == [j |-> "absent"]

\* What the transport answers to one request: an HTTPError (a status that is
\* not 2xx), a URLError (no connection), or a body.
Answer(body) == [t |-> "body", body |-> body]
HTTPError == [t |-> "HTTPError"]
URLError == [t |-> "URLError"]

\* with ur.urlopen(req) as response: return json.loads(response.read())
urlopen_json(answer) ==
    IF answer.t = "body" THEN json_loads(answer.body) ELSE Raise(answer.t, "")

\* str(x) as urlencode applies it to a parameter's value
str(x) ==
    CASE x.t = "bool" -> IF x.b THEN <<"True">> ELSE <<"False">>
      [] x.t = "None" -> <<"None">>
      [] OTHER -> StrOf(x)

\* urllib.parse.urlencode(params): key=value joined by &. quote_plus leaves
\* the characters of the values built here (letters, digits, '.', '-') as they are.
RECURSIVE urlencode(_)
urlencode(params) ==
    IF params = <<>>
    THEN <<>>
    ELSE <<Head(params)[1], "=">> \o str(Head(params)[2])
            \o (IF Tail(params) = <<>> THEN <<>> ELSE <<"&">> \o urlencode(Tail(params)))

-----------------------------------------------------------------------------
(* yupdates/client.py *)

DEFAULT_YUPDATES_API_URL == <<"https://feeds.yupdates.com/api/v0", "/">>

FEED_ID_LEN == 45
MAX_ITEMS_WITH_CONTENT == 10
MAX_ITEMS == 50

\* the Python int of a natural number
RECURSIVE NatDigits(_)
NatDigits(n) == IF n < 10 THEN <<n>> ELSE NatDigits(n \div 10) \o <<n % 10>>

BigOf(n) == IF n < 0 THEN Big(TRUE, NatDigits(-n)) ELSE Big(FALSE, NatDigits(n))

\* How a method ends: its result, and the requests and log records it made.
\* A request is made only when urlopen is reached.
Outcome(res, reqs, logs) == [result |-> res, requests |-> reqs, log |-> logs]

\* YupdatesClient.__init__
YupdatesClient(token, base_url, quiet) ==
    LET s == StrOf(base_url)
    IN  [token |-> StrOf(token),
         quiet |-> quiet,
         base_url |-> IF endswith(s, "/") THEN s ELSE s \o <<"/">>]

_headers(self) == ("X-Auth-Token" :> self.token)

\* YupdatesClient.ping
ping(self, answer) ==
    LET url == self.base_url \o <<"ping/">>
        req == Request("GET", url, _headers(self), NoData)
    IN  Outcome(urlopen_json(answer), <<req>>, <<>>)

\* ping_bool that logs only when the client is not quiet
ping_bool_quiet(self, answer) ==
    LET r == ping(self, answer)
    IN  IF r.result.kind = "return"
        THEN Outcome(Return(PyBool(TRUE)), r.requests, r.log)
        ELSE Outcome(Return(PyBool(FALSE)), r.requests,
                     IF self.quiet THEN r.log
                     ELSE r.log \o <<[level |-> "error",
                                      msg |-> <<"Issue pinging the API: ", r.result.exc>>]>>)

\* YupdatesClient.ping_bool
ping_bool(self, answer) ==
    LET r == ping(self, answer)
    IN  IF r.result.kind = "return"
        THEN Outcome(Return(PyBool(TRUE)), r.requests, r.log)
        ELSE Outcome(Return(PyBool(FALSE)), r.requests,
                     r.log \o <<[level |-> "error",
                                 msg |-> <<"Issue pinging the API: ", r.result.exc>>]>>)

\* _map_dataclasses_to_dicts
_map_dataclasses_to_dicts(dc_list, klass) ==
    IF \E k \in 1..Len(dc_list) : ~isinstance(dc_list[k], klass)
    THEN Raise("ValueError", "expected list of klass")
    ELSE Return([k \in 1..Len(dc_list) |-> asdict(dc_list[k])])

\* _map_dicts_to_dataclasses: the first element klass(**data_dict) rejects
\* ends the loop with its exception
_map_dicts_to_dataclasses(dict_list, klass) ==
    LET made == [k \in 1..Len(dict_list) |-> new(klass, dict_list[k])]
        bad == {k \in 1..Len(dict_list) : made[k].kind = "raise"}
    IN  IF bad # {}
        THEN made[CHOOSE k \in bad : \A j \in bad : k <= j]
        ELSE Return(PyList([k \in 1..Len(dict_list) |-> made[k].value]))

\* the warning logged whatever quiet says
no_items_log_always(self) ==
    <<[level |-> "warning", msg |-> <<"call to add new items - but there were no items?">>]>>

\* what new_items logs when it is given no items
no_items_log(self) ==
    IF ~self.quiet
    THEN <<[level |-> "warning", msg |-> <<"call to add new items - but there were no items?">>]>>
    ELSE <<>>

\* YupdatesClient.new_items
new_items(self, items, answer) ==
    IF ~Truthy(items)
    THEN Outcome(Return(PyNone), <<>>, no_items_log(self))
    ELSE LET dicts == _map_dataclasses_to_dicts(items.l, "InputItem")
         IN  IF dicts.kind = "raise"
             THEN Outcome(dicts, <<>>, <<>>)
             ELSE LET payload == PyDict([items |-> PyList(dicts.value)])
                      json_payload == json_dumps(payload)
                      url == self.base_url \o <<"items/">>
                      req == Request("POST", url, _headers(self), json_payload)
                  IN  Outcome(urlopen_json(answer), <<req>>, <<>>)

\* one upper bound for both cases
max_items_in_loose(max_items, hi) ==
    BigLeq(BigOf(1), max_items) /\ BigLeq(max_items, BigOf(MAX_ITEMS))

\* 1 <= max_items <= hi
max_items_in(max_items, hi) == BigLeq(BigOf(1), max_items) /\ BigLeq(max_items, BigOf(hi))

\* the check that the two item times are not both supplied (client.py line 188)
both_item_times(item_time_after, item_time_before) ==
    Truthy(item_time_after) /\ Truthy(item_time_before)

\* the rest of read_items once its arguments are validated and params is built
read_items_query(self, feed_id, params, answer) ==
    LET encoded_params == urlencode(params)
        url == self.base_url \o <<"feeds/">> \o feed_id \o <<"/?">> \o encoded_params
        req == Request("GET", url, _headers(self), NoData)
        data_dict == urlopen_json(answer)
    IN  CASE data_dict.kind = "raise" -> Outcome(data_dict, <<req>>, <<>>)
          [] data_dict.value.t # "dict" ->
                Outcome(Raise("TypeError", "indices must be integers"), <<req>>, <<>>)
          [] "feed_items" \notin DOMAIN data_dict.value.d ->
                Outcome(Raise("KeyError", "feed_items"), <<req>>, <<>>)
          [] data_dict.value.d["feed_items"].t # "list" ->
                Outcome(Raise("TypeError", "object is not iterable"), <<req>>, <<>>)
          [] OTHER ->
                Outcome(_map_dicts_to_dataclasses(data_dict.value.d["feed_items"].l, "FeedItem"),
                        <<req>>, <<>>)

\* YupdatesClient.read_items
read_items(self, feed_id_arg, max_items, include_item_content, item_time_after, item_time_before, answer) ==
    LET feed_id == strip(StrOf(feed_id_arg))
        after == IF item_time_after # PyNone
                 THEN normalize_item_time(item_time_after) ELSE Return(PyNone)
        before == IF item_time_before # PyNone
                  THEN normalize_item_time(item_time_before) ELSE Return(PyNone)
        params == <<
                    <<"max_items", PyInt(max_items)>>,
                    <<"include_item_content", PyBool(include_item_content)>> >>
                  \o (IF item_time_after # PyNone
                      THEN << <<"item_time_after", after.value>> >> ELSE <<>>)
                  \o (IF item_time_before # PyNone
                      THEN << <<"item_time_before", before.value>> >> ELSE <<>>)
        invalid(msg) == Outcome(Raise("ValueError", msg), <<>>, <<>>)
    IN  CASE ~Truthy(feed_id_arg) -> invalid("feed_id is missing")
          [] Len(feed_id) # FEED_ID_LEN -> invalid("feed_id expected to be 45 characters")
          [] include_item_content /\ ~max_items_in(max_items, MAX_ITEMS_WITH_CONTENT) ->
                invalid("max_items must be 1 to 10 when include_item_content is True")
          [] ~max_items_in(max_items, MAX_ITEMS) -> invalid("max_items must be 1 to 50")
          [] after.kind = "raise" -> Outcome(after, <<>>, <<>>)
          [] before.kind = "raise" -> Outcome(before, <<>>, <<>>)
          [] both_item_times(item_time_after, item_time_before) ->
                invalid("cannot simultaneously query item_time_after and item_time_before")
          [] OTHER -> read_items_query(self, feed_id, params, answer)

\* os.environ.get(name)
environ_get(env, name) == env[name]

\* yupdates_client
yupdates_client(env, token, base_url, quiet) ==
    LET tok == IF token = PyNone THEN environ_get(env, "YUPDATES_API_TOKEN") ELSE token
        from_env == IF base_url = PyNone THEN environ_get(env, "YUPDATES_API_URL") ELSE base_url
        url == IF from_env = PyNone THEN PyStr(DEFAULT_YUPDATES_API_URL) ELSE from_env
    IN  IF tok = PyNone
        THEN Raise("ValueError", "API token is missing: set YUPDATES_API_TOKEN")
        ELSE Return(YupdatesClient(tok, url, quiet))

-----------------------------------------------------------------------------
(* yupdates/yapi.py: each function builds the default client, then delegates *)

\* the environment as it was when the module was imported
ImportEnviron == [name \in {"YUPDATES_API_TOKEN", "YUPDATES_API_URL"} |->
                    IF name = "YUPDATES_API_TOKEN" THEN PyStr(<<"http://t">>) ELSE PyNone]

\* a default client resolved once, at import, and kept
default_client_kept(env) == yupdates_client(ImportEnviron, PyNone, PyNone, FALSE)

default_client(env) == yupdates_client(env, PyNone, PyNone, FALSE)

yapi_ping(env, answer) ==
    LET c == default_client(env)
    IN  IF c.kind = "raise" THEN Outcome(c, <<>>, <<>>) ELSE ping(c.value, answer)

yapi_ping_bool(env, answer) ==
    LET c == default_client(env)
    IN  IF c.kind = "raise" THEN Outcome(c, <<>>, <<>>) ELSE ping_bool(c.value, answer)

yapi_new_items(env, items, answer) ==
    LET c == default_client(env)
    IN  IF c.kind = "raise" THEN Outcome(c, <<>>, <<>>) ELSE new_items(c.value, items, answer)

yapi_read_items(env, feed_id, max_items, include_item_content, item_time_after, item_time_before, answer) ==
    LET c == default_client(env)
    IN  IF c.kind = "raise"
        THEN Outcome(c, <<>>, <<>>)
        ELSE read_items(c.value, feed_id, max_items, include_item_content,
                        item_time_after, item_time_before, answer)

-----------------------------------------------------------------------------
(* The bounds of the inputs *)

MaxBaseLen == 14      \* digits of the longest base tried: one more than BASE_WIDTH
MaxSlotLen == 6       \* digits of the longest slot tried: one more than SLOT_WIDTH
MaxPad == 1           \* whitespace characters on each side of a feed id
MaxItems == 2         \* items in one new_items call
MaxFeedItems == 2     \* elements of one feed_items array

\* the digits d1 d2 ... d2, n of them: 10^(n-1) and 10^n - 1 among them
Pattern(d1, d2, n) == [k \in 1..n |-> IF k = 1 THEN d1 ELSE d2]

Edges(maxlen) ==
    {Pattern(1, 0, n) : n \in 1..maxlen} \cup {Pattern(9, 9, n) : n \in 1..maxlen}

BaseInts ==
    {Big(FALSE, m) : m \in Edges(MaxBaseLen)
                        \cup {<<0>>, <<1, 2, 3, 4>>, <<1, 6, 6, 1, 5, 6, 4, 0, 1, 3, 5, 5, 5>>}}
    \cup {Big(TRUE, m) : m \in {<<1>>, <<9, 9>>}}

SlotInts ==
    {Big(FALSE, m) : m \in Edges(MaxSlotLen) \cup {<<0>>, <<3>>}}
    \cup {Big(TRUE, m) : m \in {<<1>>}}

\* the ways an item time (b, s) is written
Forms == {"int", "str", "dotted", "padded"}

Written(form, b, s) ==
    CASE form = "int" -> PyInt(b)
      [] form = "str" -> PyStr(IntToStr(b))
      [] form = "dotted" -> PyStr(IntToStr(b) \o <<".">> \o IntToStr(s))
      [] form = "padded" ->
            PyStr(zfill(IntToStr(b), BASE_WIDTH) \o <<".">> \o zfill(IntToStr(s), SLOT_WIDTH))

\* texts that are no item time, or one written otherwise
OtherTexts ==
    {<<>>, <<"x">>, <<"5", ".">>, <<".", "5">>, <<"1", ".", "2", ".", "3">>,
     <<"-", "0", ".", "5">>, <<"+", "7">>, <<"1", ".", "x">>}

\* the clients the calls are made on; a base URL names its scheme, as
\* ur.Request requires
Clients ==
    {YupdatesClient(PyStr(<<"t">>), PyStr(<<"http://h">>), FALSE),
     YupdatesClient(PyStr(<<"t">>), PyStr(<<"http://h", "/">>), TRUE)}

\* feed ids: None, and lead whitespace, n characters, trail whitespace
FeedIdText(lead, n, trail) ==
    [k \in 1..lead |-> " "] \o [k \in 1..n |-> "a"] \o [k \in 1..trail |-> "\t"]

FeedIdLens == {0, 1, FEED_ID_LEN - 2, FEED_ID_LEN - 1, FEED_ID_LEN, FEED_ID_LEN + 1}

FeedIds ==
    {PyNone} \cup
    {PyStr(FeedIdText(lead, n, trail)) : lead \in 0..MaxPad, n \in FeedIdLens, trail \in 0..MaxPad}

MaxItemsNumbers ==
    {-1, 0, 1, 2, MAX_ITEMS_WITH_CONTENT - 1, MAX_ITEMS_WITH_CONTENT,
     MAX_ITEMS_WITH_CONTENT + 1, MAX_ITEMS - 1, MAX_ITEMS, MAX_ITEMS + 1}

MaxItemsTried == {BigOf(n) : n \in MaxItemsNumbers}

ItemTimes ==
    {PyNone, PyInt(BigOf(0)), PyStr(<<"0">>), PyInt(BigOf(5)), PyStr(<<>>)}

\* items for new_items
File1 ==
    Instance("AssociatedFile",
             [url |-> PyStr(<<"f">>), length |-> PyInt(BigOf(7)), type_str |-> PyStr(<<"m">>)])

Item(title, files) ==
    Instance("InputItem",
             [title |-> PyStr(title), content |-> PyStr(<<"c">>),
              canonical_url |-> PyStr(<<"u">>), associated_files |-> files])

ItemChoices ==
    {Item(<<"a">>, PyNone), Item(<<"b">>, PyList(<<File1>>)), PyDict([title |-> PyStr(<<"a">>)])}

RECURSIVE SeqsUpTo(_, _)
SeqsUpTo(S, n) ==
    IF n = 0 THEN {<<>>}
    ELSE LET shorter == SeqsUpTo(S, n - 1)
         IN  shorter \cup {Append(q, x) : q \in shorter, x \in S}

ItemLists == {PyList(l) : l \in SeqsUpTo(ItemChoices, MaxItems)}

\* the JSON of a feed item's field, in one of two variants
SampleField(k, v) ==
    CASE k = "item_time_ms" -> [j |-> "number", n |-> <<"1", "2">>]
      [] k = "deleted" -> [j |-> "false"]
      [] k = "associated_files" ->
            IF v = 1 THEN [j |-> "null"]
            ELSE [j |-> "array",
                  a |-> << [j |-> "object",
                            o |-> [url |-> [j |-> "string", s |-> <<"f">>],
                                   length |-> [j |-> "number", n |-> <<"7">>],
                                   type_str |-> [j |-> "string", s |-> <<"m">>]]] >>]
      [] k = "title" -> [j |-> "string", s |-> IF v = 1 THEN <<"a">> ELSE <<"b">>]
      [] OTHER -> [j |-> "string", s |-> <<k>>]

FeedItemJson(keys, v) ==
    [j |-> "object",
     o |-> [k \in keys |-> IF k \in FeedItemFields THEN SampleField(k, v)
                           ELSE [j |-> "string", s |-> <<"?">>]]]

\* elements of a feed_items array: complete ones, ones that lack one field,
\* one with a key that is no field, and one that is no object
FeedItemElements ==
    {FeedItemJson(FeedItemFields, v) : v \in {1, 2}}
    \cup {FeedItemJson(FeedItemFields \ {k}, 1) : k \in FeedItemFields}
    \cup {FeedItemJson(FeedItemFields \cup {"score"}, 1), [j |-> "string", s |-> <<"a">>]}

\* what the transport may answer to a ping or to new_items
Answers ==
    {HTTPError, URLError, Answer(Garbage),
     Answer([j |-> "object", o |-> [feed_id |-> [j |-> "string", s |-> <<"f">>]]])}

\* what the transport may answer to read_items
FeedAnswers ==
    Answers \cup
    {Answer([j |-> "object", o |-> [feed_items |-> [j |-> "array", a |-> l]]]) :
        l \in SeqsUpTo(FeedItemElements, MaxFeedItems)}

\* one answer that holds feed items
OneFeed ==
    {Answer([j |-> "object",
             o |-> [feed_items |->
                      [j |-> "array",
                       a |-> <<FeedItemJson(FeedItemFields, 1), FeedItemJson(FeedItemFields, 2)>>]]])}

\* the feed ids of the calls whose other arguments or answers are what varies
FewFeedIds == {PyNone, PyStr(FeedIdText(0, FEED_ID_LEN, 0)), PyStr(FeedIdText(1, 1, 0))}

\* the values of the environment variables: unset, or a text that serves as a
\* token and as a base URL
EnvValues == {PyNone, PyStr(<<"http://t">>), PyStr(<<"http://k", "/">>)}

EnvNames == {"YUPDATES_API_TOKEN", "YUPDATES_API_URL"}

-----------------------------------------------------------------------------
(* The calls *)

NoCall == [name |-> "none"]

Init ==
    /\ environ = [name \in EnvNames |-> PyNone]
    /\ op = NoCall
    /\ result = Return(PyNone)
    /\ requests = <<>>
    /\ answers = <<>>
    /\ log = <<>>

\* the call o, made when the previous one is done with, ended as out;
\* the transport answered each request it made with answer
Ended(o, out, answer) ==
    /\ op = NoCall
    /\ op' = o
    /\ result' = out.result
    /\ requests' = out.requests
    /\ answers' = [k \in 1..Len(out.requests) |-> answer]
    /\ log' = out.log
    /\ UNCHANGED environ

\* the caller is done with the latest call's result and goes on
Continue ==
    /\ op # NoCall
    /\ op' = NoCall
    /\ result' = Return(PyNone)
    /\ requests' = <<>>
    /\ answers' = <<>>
    /\ log' = <<>>
    /\ UNCHANGED environ

\* normalize_item_time of the item time (b, s) written as form
NormalizeItemTime(form, b, s) ==
    /\ form \in {"int", "str"} => s = ZERO
    /\ LET item_time == Written(form, b, s)
       IN  Ended([name |-> "normalize_item_time", form |-> form, b |-> b, s |-> s,
                  item_time |-> item_time],
                 Outcome(normalize_item_time(item_time), <<>>, <<>>), HTTPError)

\* normalize_item_time of another text
NormalizeText(text) ==
    Ended([name |-> "normalize_item_time", form |-> "text", item_time |-> PyStr(text)],
          Outcome(normalize_item_time(PyStr(text)), <<>>, <<>>), HTTPError)

Ping(self, answer) ==
    Ended([name |-> "ping", self |-> self], ping(self, answer), answer)

PingBool(self, answer) ==
    Ended([name |-> "ping_bool", self |-> self], ping_bool(self, answer), answer)

NewItems(self, items, answer) ==
    Ended([name |-> "new_items", self |-> self, items |-> items],
          new_items(self, items, answer), answer)

\* read_items; the transport has an answer to give only when it is asked
ReadItems(self, feed_id, max_items, include_item_content, item_time_after, item_time_before, Answering) ==
    LET o == [name |-> "read_items", self |-> self, feed_id |-> feed_id,
              max_items |-> max_items, include_item_content |-> include_item_content,
              item_time_after |-> item_time_after, item_time_before |-> item_time_before]
        unanswered == read_items(self, feed_id, max_items, include_item_content,
                                 item_time_after, item_time_before, URLError)
    IN  /\ op = NoCall
        /\ IF unanswered.requests = <<>>
           THEN Ended(o, unanswered, URLError)
           ELSE \E answer \in Answering :
                   Ended(o, read_items(self, feed_id, max_items, include_item_content,
                                       item_time_after, item_time_before, answer), answer)

\* the host program sets or unsets an environment variable between two calls
SetEnv(name, value) ==
    /\ op = NoCall
    /\ environ' = [environ EXCEPT ![name] = value]
    /\ UNCHANGED <<op, result, requests, answers, log>>

YapiPing(answer) ==
    Ended([name |-> "yapi.ping"], yapi_ping(environ, answer), answer)

YapiPingBool(answer) ==
    Ended([name |-> "yapi.ping_bool"], yapi_ping_bool(environ, answer), answer)

YapiNewItems(items, answer) ==
    Ended([name |-> "yapi.new_items", items |-> items],
          yapi_new_items(environ, items, answer), answer)

YapiReadItems(feed_id, max_items, include_item_content, item_time_after, item_time_before, answer) ==
    Ended([name |-> "yapi.read_items", feed_id |-> feed_id,
           max_items |-> max_items, include_item_content |-> include_item_content,
           item_time_after |-> item_time_after, item_time_before |-> item_time_before],
          yapi_read_items(environ, feed_id, max_items, include_item_content,
                          item_time_after, item_time_before, answer), answer)

\* The item-time codec alone
NextCodec ==
    \/ op = NoCall /\ \E form \in Forms, b \in BaseInts, s \in SlotInts : NormalizeItemTime(form, b, s)
    \/ op = NoCall /\ \E text \in OtherTexts : NormalizeText(text)
    \/ Continue

SpecCodec == Init /\ [][NextCodec]_vars

\* Calls on a client, with every kind of argument
NextClient ==
    \/ op = NoCall /\ \E self \in Clients, answer \in Answers : Ping(self, answer)
    \/ op = NoCall /\ \E self \in Clients, answer \in Answers : PingBool(self, answer)
    \/ op = NoCall /\ \E self \in Clients, items \in ItemLists \cup {PyNone}, answer \in Answers :
            NewItems(self, items, answer)
    \/ op = NoCall /\ \E self \in Clients, feed_id \in FeedIds, max_items \in MaxItemsTried,
          include_item_content \in BOOLEAN, item_time_after \in ItemTimes,
          item_time_before \in ItemTimes :
            ReadItems(self, feed_id, max_items, include_item_content,
                      item_time_after, item_time_before, Answers \cup OneFeed)
    \/ Continue

SpecClient == Init /\ [][NextClient]_vars

\* read_items with arguments it accepts, and every kind of answer
NextFeed ==
    \/ op = NoCall /\ \E self \in Clients, feed_id \in FewFeedIds, include_item_content \in BOOLEAN,
          item_time_after \in {PyNone, PyInt(BigOf(5))} :
            ReadItems(self, feed_id, BigOf(MAX_ITEMS_WITH_CONTENT), include_item_content,
                      item_time_after, PyNone, FeedAnswers)
    \/ Continue

SpecFeed == Init /\ [][NextFeed]_vars

\* Calls through the facade, between changes of the environment
NextFacade ==
    \/ op = NoCall /\ \E name \in EnvNames, value \in EnvValues : SetEnv(name, value)
    \/ op = NoCall /\ \E answer \in Answers : YapiPing(answer)
    \/ op = NoCall /\ \E answer \in Answers : YapiPingBool(answer)
    \/ op = NoCall /\ \E items \in ItemLists, answer \in Answers : YapiNewItems(items, answer)
    \/ op = NoCall /\ \E feed_id \in FewFeedIds,
          max_items \in {BigOf(MAX_ITEMS_WITH_CONTENT), BigOf(MAX_ITEMS + 1)},
          item_time_after \in {PyNone, PyInt(BigOf(5))}, answer \in Answers :
            YapiReadItems(feed_id, max_items, FALSE, item_time_after, PyNone, answer)
    \/ Continue

SpecFacade == Init /\ [][NextFacade]_vars

-----------------------------------------------------------------------------
(* Properties *)

ValueErrorRaised == result.kind = "raise" /\ result.exc = "ValueError"

FeedIdErrors == {"feed_id is missing", "feed_id expected to be 45 characters"}

MaxItemsErrors ==
    {"max_items must be 1 to 10 when include_item_content is True", "max_items must be 1 to 50"}

FeedIdRejected == ValueErrorRaised /\ result.msg \in FeedIdErrors

MaxItemsRejected == ValueErrorRaised /\ result.msg \in MaxItemsErrors

\* the request's URL holds the query parameter key
InQuery(request, key) == \E k \in 1..Len(request.url) : request.url[k] = key

\* C1: read_items with both item_time_after and item_time_before supplied (not
\* None), whatever their values, fails with a ValueError and makes no request;
\* and no request ever carries both parameters in its query.
C1_BothItemTimesRejected ==
    op.name = "read_items" =>
        /\ (op.item_time_after # PyNone /\ op.item_time_before # PyNone)
                => (ValueErrorRaised /\ requests = <<>>)
        /\ \A k \in 1..Len(requests) :
                ~(InQuery(requests[k], "item_time_after") /\ InQuery(requests[k], "item_time_before"))

\* C2: read_items with a feed id that is missing, empty, or of a trimmed length
\* other than 45 fails with a ValueError about the feed id and makes no request;
\* a feed id of trimmed length 45 passes that check with any whitespace around it.
C2_FeedIdChecked ==
    op.name = "read_items" =>
        /\ op.feed_id = PyNone => (FeedIdRejected /\ requests = <<>>)
        /\ \A lead \in 0..MaxPad, trail \in 0..MaxPad, n \in FeedIdLens :
                op.feed_id = PyStr(FeedIdText(lead, n, trail)) =>
                    IF n = FEED_ID_LEN
                    THEN ~FeedIdRejected
                    ELSE FeedIdRejected /\ requests = <<>>

\* a feed id of 45 characters of which only 43 are left after trimming is refused
C2_Witness ==
    /\ op.name = "read_items"
    /\ op.feed_id = PyStr(FeedIdText(1, FEED_ID_LEN - 2, 1))
    /\ FeedIdRejected
    /\ requests = <<>>

\* C3: with a feed id that passes, read_items passes the max_items check exactly
\* when 1 <= max_items <= 10 if include_item_content, and when 1 <= max_items <= 50
\* if not; otherwise it fails with a ValueError about max_items and makes no request.
C3_MaxItemsChecked ==
    (op.name = "read_items" /\ ~FeedIdRejected) =>
        \A n \in MaxItemsNumbers :
            op.max_items = BigOf(n) =>
                LET hi == IF op.include_item_content THEN 10 ELSE 50
                IN  IF 1 <= n /\ n <= hi
                    THEN ~MaxItemsRejected
                    ELSE MaxItemsRejected /\ requests = <<>>

\* max_items = 11 with include_item_content is refused
C3_Witness ==
    /\ op.name = "read_items"
    /\ op.include_item_content
    /\ op.max_items = BigOf(11)
    /\ MaxItemsRejected
    /\ requests = <<>>

\* the digits of a magnitude, zero-padded on the left to width characters
Padded(mag, width) ==
    [k \in 1..width |->
        IF k <= width - Len(mag) THEN "0" ELSE DigitChars[mag[k - (width - Len(mag))] + 1]]

\* an integer within 0 .. 10^width - 1
Within(i, width) == ~i.neg /\ Len(i.mag) <= width

\* C4: for the integers b and s written as b, "b" or "b.s", normalize_item_time
\* returns b padded to 13 digits, '.', s padded to 5 digits when
\* 0 <= b <= 9999999999999 and 0 <= s <= 99999, and raises a ValueError otherwise.
C4_NormalizedOrRejected ==
    (op.name = "normalize_item_time" /\ op.form \in {"int", "str", "dotted"}) =>
        IF Within(op.b, 13) /\ Within(op.s, 5)
        THEN result = Return(PyStr(Padded(op.b.mag, 13) \o <<".">> \o Padded(op.s.mag, 5)))
        ELSE ValueErrorRaised

\* the largest item time is accepted
C4_Witness ==
    /\ op.name = "normalize_item_time"
    /\ op.form = "dotted"
    /\ op.b = BASE_MAX
    /\ op.s = SLOT_MAX
    /\ result.kind = "return"

\* C5: for b and s in range, normalizing the text "b.s" gives what normalizing
\* its padded form gives, and normalizing any output of normalize_item_time
\* gives that output again.
C5_Idempotent ==
    op.name = "normalize_item_time" =>
        /\ (op.form = "dotted" /\ Within(op.b, 13) /\ Within(op.s, 5)) =>
                /\ result.kind = "return"
                /\ result = normalize_item_time(Written("padded", op.b, op.s))
        /\ result.kind = "return" => normalize_item_time(result.value) = result

\* an item time that needs padding in both parts was normalized
C5_Witness ==
    /\ op.name = "normalize_item_time"
    /\ op.form = "dotted"
    /\ op.b = Big(FALSE, <<1, 2, 3, 4>>)
    /\ op.s = Big(FALSE, <<3>>)
    /\ result.kind = "return"
    /\ result.value # op.item_time

\* C6, as claimed: normalize_item_time(1234) returns "0000001234.00000"
C6_AsClaimed ==
    (op.name = "normalize_item_time" /\ op.item_time = PyInt(Big(FALSE, <<1, 2, 3, 4>>))) =>
        result = Return(PyStr(<<"0", "0", "0", "0", "0", "0", "1", "2", "3", "4", ".",
                                "0", "0", "0", "0", "0">>))

\* C6, amended: normalize_item_time(1234) returns "0000000001234.00000", the
\* base padded to 13 digits
C6_Amended ==
    (op.name = "normalize_item_time" /\ op.item_time = PyInt(Big(FALSE, <<1, 2, 3, 4>>))) =>
        result = Return(PyStr(<<"0", "0", "0", "0", "0", "0", "0", "0", "0", "1", "2", "3", "4", ".",
                                "0", "0", "0", "0", "0">>))

\* normalize_item_time(1234) returned
C6_Witness ==
    /\ op.name = "normalize_item_time"
    /\ op.item_time = PyInt(Big(FALSE, <<1, 2, 3, 4>>))
    /\ result.kind = "return"

\* the JSON object of the InputItem item
CarriesItem(object, item) ==
    /\ object.j = "object"
    /\ DOMAIN object.o = InputItemFields
    /\ \A k \in {"title", "content", "canonical_url"} :
            object.o[k] = [j |-> "string", s |-> item.f[k].s]
    /\ IF item.f["associated_files"] = PyNone
       THEN object.o["associated_files"] = [j |-> "null"]
       ELSE /\ object.o["associated_files"].j = "array"
            /\ Len(object.o["associated_files"].a) = Len(item.f["associated_files"].l)

C8_PingBool ==
    op.name = "ping_bool" =>
        /\ result.kind = "return"
        /\ Len(answers) = 1
        /\ IF answers[1].t = "body" /\ answers[1].body # Garbage
           THEN result.value = PyBool(TRUE)
           ELSE /\ result.value = PyBool(FALSE)
                /\ Len(log) = 1
                /\ log[1].level = "error"

\* a quiet client's ping failed and the failure was logged
C8_Witness ==
    /\ op.name = "ping_bool"
    /\ op.self.quiet
    /\ answers = <<URLError>>
    /\ result = Return(PyBool(FALSE))
    /\ Len(log) = 1

YapiNames == {"yapi.ping", "yapi.ping_bool", "yapi.new_items", "yapi.read_items"}

\* the base URL in effect: YUPDATES_API_URL, or the default, ending with a slash
BaseUrlInEffect ==
    LET u == IF environ["YUPDATES_API_URL"] = PyNone
             THEN DEFAULT_YUPDATES_API_URL ELSE environ["YUPDATES_API_URL"].s
    IN  IF u # <<>> /\ u[Len(u)] = "/" THEN u ELSE u \o <<"/">>

\* C9: every call through the facade uses the token and base URL that the
\* environment holds at that call, whatever earlier calls used; when the token
\* is unset the call raises the ValueError of the missing token and makes no request.
C9_FacadeResolvesEachCall ==
    op.name \in YapiNames =>
        IF environ["YUPDATES_API_TOKEN"] = PyNone
        THEN /\ result = Raise("ValueError", "API token is missing: set YUPDATES_API_TOKEN")
             /\ requests = <<>>
        ELSE \A k \in 1..Len(requests) :
                /\ requests[k].headers["X-Auth-Token"] = environ["YUPDATES_API_TOKEN"].s
                /\ Len(requests[k].url) > Len(BaseUrlInEffect)
                /\ SubSeq(requests[k].url, 1, Len(BaseUrlInEffect)) = BaseUrlInEffect

\* a call made after the environment was changed used the new token and URL
C9_Witness ==
    /\ op.name = "yapi.read_items"
    /\ environ["YUPDATES_API_TOKEN"] = PyStr(<<"http://k", "/">>)
    /\ environ["YUPDATES_API_URL"] = PyStr(<<"http://t">>)
    /\ Len(requests) = 1
    /\ requests[1].headers["X-Auth-Token"] = <<"http://k", "/">>

\* the feed_items array the transport answered with, when it did
FeedItemsAnswered ==
    /\ op.name = "read_items"
    /\ Len(answers) = 1
    /\ answers[1].t = "body"
    /\ answers[1].body # Garbage
    /\ "feed_items" \in DOMAIN answers[1].body.o

Elements == answers[1].body.o["feed_items"].a

\* the element e is an object with exactly the keys of the set required, and
\* possibly those of the set optional
Shaped(e, required, optional) ==
    /\ e.j = "object"
    /\ required \subseteq DOMAIN e.o
    /\ DOMAIN e.o \subseteq required \cup optional

\* the result is one FeedItem per element, in order, with the elements' values
ReturnsTheElements ==
    /\ result.kind = "return"
    /\ result.value.t = "list"
    /\ Len(result.value.l) = Len(Elements)
    /\ \A k \in 1..Len(Elements) :
            /\ result.value.l[k].t = "FeedItem"
            /\ DOMAIN result.value.l[k].f = FeedItemFields
            /\ \A field \in FeedItemFields :
                    result.value.l[k].f[field] =
                        IF field \in DOMAIN Elements[k].o
                        THEN json_value(Elements[k].o[field]) ELSE PyNone

\* C10, as claimed: read_items fails when an element of feed_items has a key
\* that is no FeedItem field or lacks any of the ten fields, and otherwise
\* returns one FeedItem per element, in order, with equal values.
C10_AsClaimed ==
    FeedItemsAnswered =>
        IF \A k \in 1..Len(Elements) : Shaped(Elements[k], FeedItemFields, {})
        THEN ReturnsTheElements
        ELSE result.kind = "raise"

\* C10, amended: read_items fails when an element of feed_items has a key that
\* is no FeedItem field or lacks any field other than associated_files, and
\* otherwise returns one FeedItem per element, in order, with equal values,
\* associated_files being None where the element has no such key.
C10_Amended ==
    FeedItemsAnswered =>
        IF \A k \in 1..Len(Elements) :
                Shaped(Elements[k], FeedItemFields \ {"associated_files"}, {"associated_files"})
        THEN ReturnsTheElements
        ELSE result.kind = "raise" /\ result.exc = "TypeError"

\* an element without associated_files became a FeedItem whose associated_files is None
C10_Witness ==
    /\ FeedItemsAnswered
    /\ Len(Elements) = 2
    /\ Elements[1].j = "object"
    /\ "associated_files" \notin DOMAIN Elements[1].o
    /\ result.kind = "return"
    /\ result.value.l[1].f["associated_files"] = PyNone
    /\ result.value.l[2].f["title"] = PyStr(<<"b">>)

=============================================================================
